---- MODULE Spec2Model ----
(***************************************************************************)
(* ClooTrack support-ticket backend (apps/backend/index.ts) and web form   *)
(* (apps/web/app/page.tsx).  Strings are sequences of one-character        *)
(* strings, so that toLowerCase, trim, split and the \b word boundaries of *)
(* the keyword patterns are computed character by character.               *)
(***************************************************************************)
EXTENDS Integers, Sequences, FiniteSets, TLC

VARIABLES
    openai,     \* backend: whether an OpenAI client was constructed (API key set)
    creq,       \* backend: the classify requests being handled
    tickets,    \* storage: the Ticket table, in insertion order
    treq,       \* backend: the create-ticket request being handled
    form,       \* web: the state of the new-ticket form (Home)
    preq,       \* backend: the update (PATCH) request being handled
    sreq,       \* backend: the stats request being handled
    lreq,       \* backend: the list request being handled
    greq        \* backend: the get-by-id request being handled

vars == <<openai, creq, tickets, treq, form, preq, sreq, lreq, greq>>

\* The requests of the endpoints that the classify endpoint and the form do
\* not touch.
others == <<preq, sreq, lreq, greq>>

\* ------------------------------------------------------------------ bounds
\* Words per description drawn in FallbackSpec.
MaxWords == 3
\* Words per description drawn in Spec (the classify endpoint with the LLM).
MaxReqWords == 2
\* Tokens per LLM reply drawn in Spec.
MaxTokens == 3
\* Rows the Ticket table takes before every further insert fails.
MaxTickets == 2
\* Classify requests of the form that the endpoint handles at a time.
MaxInFlight == 1
\* Tickets the form submits before every further insert fails.
MaxSubmitted == 1
\* Days over which the rows of the Ticket table are created.
MaxDays == 2

\* ------------------------------------------------------------- JS values
\* JavaScript undefined (a missing body field, a missing message content).
\* Every string is a tuple of one-character strings, so this tuple is none.
undefined == <<"undefined">>

\* JSON null and a JSON number (7): the values of a body field that are
\* neither absent nor a string.
null == <<"null">>
aNumber == <<"number">>

\* typeof v === "string"
IsString(v) == v \notin {undefined, null, aNumber}

\* String(v)
String(v) ==
    IF v = aNumber THEN <<"7">>
    ELSE IF v = null THEN <<"n","u","l","l">>
    ELSE IF v = undefined THEN <<"u","n","d","e","f","i","n","e","d">>
    ELSE v

\* ------------------------------------------------------------ the enums
billing == <<"b","i","l","l","i","n","g">>
technical == <<"t","e","c","h","n","i","c","a","l">>
account == <<"a","c","c","o","u","n","t">>
general == <<"g","e","n","e","r","a","l">>
low == <<"l","o","w">>
medium == <<"m","e","d","i","u","m">>
high == <<"h","i","g","h">>
critical == <<"c","r","i","t","i","c","a","l">>

open == <<"o","p","e","n">>
in_progress == <<"i","n","_","p","r","o","g","r","e","s","s">>
resolved == <<"r","e","s","o","l","v","e","d">>
closed == <<"c","l","o","s","e","d">>

CATEGORIES == {billing, technical, account, general}
PRIORITIES == {low, medium, high, critical}
STATUSES == {open, in_progress, resolved, closed}

\* ------------------------------------------------------ string primitives
UpperChars == <<"A","B","C","D","E","F","G","H","I","J","K","L","M","N","O","P","Q","R","S","T","U","V","W","X","Y","Z">>
LowerChars == <<"a","b","c","d","e","f","g","h","i","j","k","l","m","n","o","p","q","r","s","t","u","v","w","x","y","z">>
DigitChars == {"0","1","2","3","4","5","6","7","8","9"}

\* JS whitespace (String.prototype.trim and the regexp class \s).
IsSpace(c) == c \in {" ", "\t", "\n"}

\* The regexp class \w: [A-Za-z0-9_].
IsWordChar(c) ==
    \/ \E i \in 1..Len(UpperChars) : UpperChars[i] = c \/ LowerChars[i] = c
    \/ c \in DigitChars
    \/ c = "_"

ToLowerChar(c) ==
    IF \E i \in 1..Len(UpperChars) : UpperChars[i] = c
    THEN LowerChars[CHOOSE i \in 1..Len(UpperChars) : UpperChars[i] = c]
    ELSE c

\* String.prototype.toLowerCase
toLowerCase(s) == [i \in 1..Len(s) |-> ToLowerChar(s[i])]

RECURSIVE TrimStart(_)
TrimStart(s) ==
    IF s # <<>> /\ IsSpace(Head(s)) THEN TrimStart(Tail(s)) ELSE s

RECURSIVE TrimEnd(_)
TrimEnd(s) ==
    IF s # <<>> /\ IsSpace(s[Len(s)]) THEN TrimEnd(SubSeq(s, 1, Len(s) - 1)) ELSE s

\* String.prototype.trim
trim(s) == TrimEnd(TrimStart(s))

\* s.split(/\s+/).filter(Boolean): the maximal runs of non-whitespace
\* characters, in order.
RECURSIVE SplitWs(_, _, _)
SplitWs(s, cur, acc) ==
    IF s = <<>>
    THEN IF cur = <<>> THEN acc ELSE Append(acc, cur)
    ELSE IF IsSpace(Head(s))
         THEN SplitWs(Tail(s), <<>>, IF cur = <<>> THEN acc ELSE Append(acc, cur))
         ELSE SplitWs(Tail(s), Append(cur, Head(s)), acc)

split(s) == SplitWs(s, <<>>, <<>>)

\* The regexp assertion \b at the gap before s[p] (p in 1..Len(s)+1): exactly
\* one of the characters on its two sides is a \w character; the outside of
\* the string counts as a non-word character.
WordAt(s, p) == p >= 1 /\ p <= Len(s) /\ IsWordChar(s[p])

Boundary(s, p) == WordAt(s, p - 1) # WordAt(s, p)

\* Mutant: the pattern without its \b assertions: any occurrence matches.
RegexTestSubstring(keywords, s) ==
    \E i \in 1..Len(s) : \E k \in keywords :
        /\ i + Len(k) - 1 <= Len(s)
        /\ SubSeq(s, i, i + Len(k) - 1) = k

\* Mutant: the pattern without its closing \b: a keyword matches at the
\* start of a longer word.
RegexTestPrefix(keywords, s) ==
    \E i \in 1..Len(s) : \E k \in keywords :
        /\ i + Len(k) - 1 <= Len(s)
        /\ SubSeq(s, i, i + Len(k) - 1) = k
        /\ Boundary(s, i)

\* /\b(k1|k2|...)\b/.test(s)
RegexTest(keywords, s) ==
    \E i \in 1..Len(s) : \E k \in keywords :
        /\ i + Len(k) - 1 <= Len(s)
        /\ SubSeq(s, i, i + Len(k) - 1) = k
        /\ Boundary(s, i)
        /\ Boundary(s, i + Len(k))

\* ------------------------------------------------- the keyword patterns
BillingPattern ==
    { <<"b","i","l","l">>,
      <<"p","a","y","m","e","n","t">>,
      <<"c","h","a","r","g","e">>,
      <<"i","n","v","o","i","c","e">>,
      <<"s","u","b","s","c","r","i","p","t","i","o","n">>,
      <<"r","e","f","u","n","d">> }
AccountPattern ==
    { <<"l","o","g","i","n">>,
      <<"p","a","s","s","w","o","r","d">>,
      <<"a","c","c","o","u","n","t">>,
      <<"e","m","a","i","l">>,
      <<"a","c","c","e","s","s">>,
      <<"s","i","g","n">> }
TechnicalPattern ==
    { <<"e","r","r","o","r">>,
      <<"b","u","g">>,
      <<"c","r","a","s","h">>,
      <<"s","l","o","w">>,
      <<"b","r","o","k","e","n">>,
      <<"f","e","a","t","u","r","e">>,
      <<"a","p","i">>,
      <<"i","n","t","e","g","r","a","t","i","o","n">> }
CriticalPattern ==
    { <<"u","r","g","e","n","t">>,
      <<"c","r","i","t","i","c","a","l">>,
      <<"d","o","w","n">>,
      <<"o","u","t","a","g","e">>,
      <<"i","m","m","e","d","i","a","t","e","l","y">>,
      <<"a","s","a","p">> }
HighPattern ==
    { <<"i","m","p","o","r","t","a","n","t">>,
      <<"a","s","a","p">>,
      <<"s","o","o","n">>,
      <<"b","l","o","c","k","e","d">> }
LowPattern ==
    { <<"m","i","n","o","r">>,
      <<"w","h","e","n","e","v","e","r">>,
      <<"s","u","g","g","e","s","t","i","o","n">> }

\* ------------------------------------------------- the keyword fallback
FallbackCategory(description) ==
    LET lower == toLowerCase(description)
    IN  IF RegexTest(BillingPattern, lower) THEN billing
        ELSE IF RegexTest(AccountPattern, lower) THEN account
        ELSE IF RegexTest(TechnicalPattern, lower) THEN technical
        ELSE general

\* Mutant: the high pattern is tested before the critical one.
FallbackPriorityHighFirst(description) ==
    LET lower == toLowerCase(description)
    IN  IF RegexTest(HighPattern, lower) THEN high
        ELSE IF RegexTest(CriticalPattern, lower) THEN critical
        ELSE IF RegexTest(LowPattern, lower) THEN low
        ELSE medium

FallbackPriority(description) ==
    LET lower == toLowerCase(description)
    IN  IF RegexTest(CriticalPattern, lower) THEN critical
        ELSE IF RegexTest(HighPattern, lower) THEN high
        ELSE IF RegexTest(LowPattern, lower) THEN low
        ELSE medium

\* ------------------------------------------------------------ responses
NoResponse == [status |-> 0]

Suggestion(category, priority) ==
    [status |-> 200, suggested_category |-> category, suggested_priority |-> priority]

BadRequest ==
    [status |-> 400,
     error |-> <<"d","e","s","c","r","i","p","t","i","o","n"," ","i","s"," ",
                 "r","e","q","u","i","r","e","d">>]

\* res.json({ suggested_category, suggested_priority }) of the fallback
FallbackResponse(description) ==
    Suggestion(FallbackCategory(description), FallbackPriority(description))

\* Mutant: the description is tested for emptiness without being trimmed.
DescriptionRejectedUntrimmed(description) ==
    \/ ~IsString(description)
    \/ description = <<>>

\* typeof description !== "string" || !description.trim()
DescriptionRejected(description) ==
    \/ ~IsString(description)
    \/ trim(description) = <<>>

\* ------------------------------------------------- reading the LLM reply
\* Mutant: the reply is trimmed but not lowercased.
LLMTextNoLowerCase(content) ==
    IF IsString(content) THEN trim(content) ELSE <<>>

\* completion.choices[0]?.message?.content?.trim().toLowerCase() ?? ""
LLMText(content) ==
    IF IsString(content) THEN toLowerCase(trim(content)) ELSE <<>>

\* text.split(/\s+/).filter(Boolean)
LLMParts(content) == split(LLMText(content))

\* Mutant: the second token is only required to be present, not to be a
\* priority.
LLMAcceptedAnyPriority(content) ==
    LET parts == LLMParts(content)
    IN  /\ Len(parts) >= 1 /\ parts[1] \in CATEGORIES
        /\ Len(parts) >= 2

\* validCategory && validPriority
LLMAccepted(content) ==
    LET parts == LLMParts(content)
    IN  /\ Len(parts) >= 1 /\ parts[1] \in CATEGORIES
        /\ Len(parts) >= 2 /\ parts[2] \in PRIORITIES

\* res.json({ suggested_category: rawCategory, suggested_priority: rawPriority })
LLMResponse(content) ==
    LET parts == LLMParts(content)
    IN  Suggestion(parts[1], parts[2])

\* ------------------------------------------- POST /api/tickets/classify/
\* One record per classify request being handled:
\*   pc          idle (no request), await (suspended in the await of the
\*               completion call), done (response written)
\*   description the body's description
\*   llm         none, pending, hung (the call never settles), returned, threw
\*   content     the message content of the completion that returned
\*   calls       completion calls made for this request
\*   res         the response
MaxReq == 2

ReqIds == 1..MaxReq

IdleRequest ==
    [pc |-> "idle", description |-> undefined, llm |-> "none",
     content |-> undefined, calls |-> 0, res |-> NoResponse]

\* Mutant: without a client the defaults are answered, the keyword tests
\* skipped.
ClassifyReceiveDefaults(r, description) ==
    /\ creq[r].pc = "idle"
    /\ creq' = [creq EXCEPT ![r] =
         IF DescriptionRejected(description)
         THEN [IdleRequest EXCEPT !.pc = "done", !.description = description,
                                  !.res = BadRequest]
         ELSE IF openai
         THEN [IdleRequest EXCEPT !.pc = "await", !.description = description,
                                  !.llm = "pending", !.calls = 1]
         ELSE [IdleRequest EXCEPT !.pc = "done", !.description = description,
                                  !.res = Suggestion(general, medium)]]
    /\ UNCHANGED openai

\* The handler up to its first suspension: validation, then either the
\* completion call (when a client was constructed) or the fallback.
ClassifyReceive(r, description) ==
    /\ creq[r].pc = "idle"
    /\ creq' = [creq EXCEPT ![r] =
         IF DescriptionRejected(description)
         THEN [IdleRequest EXCEPT !.pc = "done", !.description = description,
                                  !.res = BadRequest]
         ELSE IF openai
         THEN [IdleRequest EXCEPT !.pc = "await", !.description = description,
                                  !.llm = "pending", !.calls = 1]
         ELSE [IdleRequest EXCEPT !.pc = "done", !.description = description,
                                  !.res = FallbackResponse(description)]]
    /\ UNCHANGED openai

\* Mutant: an invalid reply is answered with the defaults, the keyword tests
\* skipped.
LLMReturnDefaults(r, content) ==
    /\ creq[r].pc = "await"
    /\ creq[r].llm = "pending"
    /\ creq' = [creq EXCEPT ![r] =
         [@ EXCEPT !.pc = "done", !.llm = "returned", !.content = content,
                   !.res = IF LLMAccepted(content)
                           THEN LLMResponse(content)
                           ELSE Suggestion(general, medium)]]
    /\ UNCHANGED openai

\* The completion resolves: the handler resumes after the await, reads the
\* reply and answers with it, or warns and falls through to the fallback.
LLMReturn(r, content) ==
    /\ creq[r].pc = "await"
    /\ creq[r].llm = "pending"
    /\ creq' = [creq EXCEPT ![r] =
         [@ EXCEPT !.pc = "done", !.llm = "returned", !.content = content,
                   !.res = IF LLMAccepted(content)
                           THEN LLMResponse(content)
                           ELSE FallbackResponse(creq[r].description)]]
    /\ UNCHANGED openai

\* Mutant: the rejection is not caught and the request ends in a 500.
LLMThrowEscapes(r) ==
    /\ creq[r].pc = "await"
    /\ creq[r].llm = "pending"
    /\ creq' = [creq EXCEPT ![r] =
         [@ EXCEPT !.pc = "done", !.llm = "threw", !.res = [status |-> 500]]]
    /\ UNCHANGED openai

\* Mutant: the catch block makes the completion call once more before it
\* gives up.
LLMThrowRetries(r) ==
    /\ creq[r].pc = "await"
    /\ creq[r].llm = "pending"
    /\ creq' = [creq EXCEPT ![r] =
         IF creq[r].calls < 2
         THEN [@ EXCEPT !.calls = @ + 1]
         ELSE [@ EXCEPT !.pc = "done", !.llm = "threw",
                        !.res = FallbackResponse(creq[r].description)]]
    /\ UNCHANGED openai

\* The completion rejects: the catch block warns, then the fallback answers.
LLMThrow(r) ==
    /\ creq[r].pc = "await"
    /\ creq[r].llm = "pending"
    /\ creq' = [creq EXCEPT ![r] =
         [@ EXCEPT !.pc = "done", !.llm = "threw",
                   !.res = FallbackResponse(creq[r].description)]]
    /\ UNCHANGED openai

\* The completion neither resolves nor rejects: the call passes no timeout
\* and no abort signal, so the handler stays suspended in the await.
LLMHang(r) ==
    /\ creq[r].pc = "await"
    /\ creq[r].llm = "pending"
    /\ creq' = [creq EXCEPT ![r].llm = "hung"]
    /\ UNCHANGED openai

\* The response has been sent; nothing of the request is kept.
ClassifyRespond(r) ==
    /\ creq[r].pc = "done"
    /\ creq' = [creq EXCEPT ![r] = IdleRequest]
    /\ UNCHANGED openai

\* -------------------------------------------------- POST /api/tickets/
TitleMax == 200

\* parseOptionalEnum(value, allowed)
parseOptionalEnum(value, allowed) ==
    IF value = undefined \/ value = null \/ value = <<>> THEN undefined
    ELSE LET s == toLowerCase(String(value))
         IN  IF s \in allowed THEN s ELSE undefined

\* a ?? b
OrElse(a, b) == IF a = undefined THEN b ELSE a

\* req.body ?? {}: a body none of whose fields is defined.
NoBody ==
    [title |-> undefined, description |-> undefined, category |-> undefined,
     priority |-> undefined, status |-> undefined]

\* The create-ticket request being handled:
\*   pc    idle (no request), await (suspended in prisma.ticket.create),
\*         done (response written)
\*   body  the body of the request
\*   data  the row handed to prisma.ticket.create
\*   res   the response
NoData == [title |-> undefined]

IdleCreate == [pc |-> "idle", body |-> NoBody, data |-> NoData, res |-> NoResponse]

\* Mutant: the title and the description are stored as sent, not trimmed.
CreateReceiveUntrimmed(body) ==
    /\ treq.pc = "idle"
    /\ treq' =
         IF ~IsString(body.title) \/ trim(body.title) = <<>>
         THEN [IdleCreate EXCEPT !.pc = "done", !.body = body,
                 !.res = [status |-> 400, error |-> "title is required (max 200 chars)"]]
         ELSE IF Len(body.title) > TitleMax
         THEN [IdleCreate EXCEPT !.pc = "done", !.body = body,
                 !.res = [status |-> 400, error |-> "title must be at most 200 characters"]]
         ELSE IF ~IsString(body.description) \/ trim(body.description) = <<>>
         THEN [IdleCreate EXCEPT !.pc = "done", !.body = body,
                 !.res = [status |-> 400, error |-> "description is required"]]
         ELSE [IdleCreate EXCEPT !.pc = "await", !.body = body,
                 !.data = [title |-> body.title,
                           description |-> body.description,
                           category |-> OrElse(parseOptionalEnum(body.category, CATEGORIES), general),
                           priority |-> OrElse(parseOptionalEnum(body.priority, PRIORITIES), medium),
                           status |-> open]]
    /\ UNCHANGED <<openai, creq, tickets, others>>

\* The handler up to the await of prisma.ticket.create.
CreateReceive(body) ==
    /\ treq.pc = "idle"
    /\ treq' =
         IF ~IsString(body.title) \/ trim(body.title) = <<>>
         THEN [IdleCreate EXCEPT !.pc = "done", !.body = body,
                 !.res = [status |-> 400, error |-> "title is required (max 200 chars)"]]
         ELSE IF Len(body.title) > TitleMax
         THEN [IdleCreate EXCEPT !.pc = "done", !.body = body,
                 !.res = [status |-> 400, error |-> "title must be at most 200 characters"]]
         ELSE IF ~IsString(body.description) \/ trim(body.description) = <<>>
         THEN [IdleCreate EXCEPT !.pc = "done", !.body = body,
                 !.res = [status |-> 400, error |-> "description is required"]]
         ELSE [IdleCreate EXCEPT !.pc = "await", !.body = body,
                 !.data = [title |-> trim(body.title),
                           description |-> trim(body.description),
                           category |-> OrElse(parseOptionalEnum(body.category, CATEGORIES), general),
                           priority |-> OrElse(parseOptionalEnum(body.priority, PRIORITIES), medium),
                           status |-> open]]
    /\ UNCHANGED <<openai, creq, tickets, others>>

\* The readings of CURRENT_TIMESTAMP a new row may get, in days since the
\* first row was inserted: the clock does not run backwards.
Timestamps ==
    IF tickets = <<>> THEN {1}
    ELSE {t \in 1..MaxDays : t >= tickets[Len(tickets)].created_at}

\* The row as stored: the data, the generated id (rows are never deleted, so
\* the row count plus one is a fresh id) and the default of created_at.
NewTicket(data, at) ==
    [id |-> Len(tickets) + 1, title |-> data.title, description |-> data.description,
     category |-> data.category, priority |-> data.priority, status |-> data.status,
     created_at |-> at]

\* prisma.ticket.create resolves: the row is stored and returned with 201.
DbCreateOk ==
    /\ treq.pc = "await"
    /\ Len(tickets) < MaxTickets
    /\ \E at \in Timestamps :
          /\ tickets' = Append(tickets, NewTicket(treq.data, at))
          /\ treq' = [treq EXCEPT !.pc = "done",
                                  !.res = [status |-> 201, ticket |-> NewTicket(treq.data, at)]]
    /\ UNCHANGED <<openai, creq, form, others>>

\* prisma.ticket.create rejects: the catch block answers 500.
DbCreateFail ==
    /\ treq.pc = "await"
    /\ treq' = [treq EXCEPT !.pc = "done",
                            !.res = [status |-> 500, error |-> "Failed to create ticket"]]
    /\ UNCHANGED <<openai, creq, tickets, form, others>>

\* The response has been sent; nothing of the request is kept.
CreateRespond ==
    /\ treq.pc = "done"
    /\ treq' = IdleCreate
    /\ UNCHANGED <<openai, creq, tickets, form, others>>

\* ------------------------------------------------ PATCH /api/tickets/:id
\* The update request being handled:
\*   pc    idle (no request), find (suspended in prisma.ticket.findUnique,
\*         which is awaited outside the try block), update (suspended in
\*         prisma.ticket.update), done (response written), escaped (the
\*         handler's promise rejected and no response was written)
\*   id    the :id of the URL
\*   body  the body of the request
\*   data  the fields handed to prisma.ticket.update
\*   res   the response
NoFields == [f \in {} |-> undefined]

IdlePatch ==
    [pc |-> "idle", id |-> 0, body |-> NoBody, data |-> NoFields, res |-> NoResponse]

\* One field of data when the value is defined, none otherwise.
Field(name, value) ==
    IF value = undefined THEN NoFields ELSE [f \in {name} |-> value]

\* Mutant: an enum field that is absent or invalid is set to the default of
\* the create endpoint.
PatchDataDefaults(body) ==
    Field("title", IF body.title = undefined THEN undefined ELSE trim(body.title))
    @@ Field("description",
             IF body.description = undefined THEN undefined ELSE trim(body.description))
    @@ Field("category", OrElse(parseOptionalEnum(body.category, CATEGORIES), general))
    @@ Field("priority", OrElse(parseOptionalEnum(body.priority, PRIORITIES), medium))
    @@ Field("status", parseOptionalEnum(body.status, STATUSES))

\* The data object the handler builds from a body that passed validation.
PatchData(body) ==
    Field("title", IF body.title = undefined THEN undefined ELSE trim(body.title))
    @@ Field("description",
             IF body.description = undefined THEN undefined ELSE trim(body.description))
    @@ Field("category", parseOptionalEnum(body.category, CATEGORIES))
    @@ Field("priority", parseOptionalEnum(body.priority, PRIORITIES))
    @@ Field("status", parseOptionalEnum(body.status, STATUSES))

\* The handler up to its first await (req.params.id is never empty: the
\* route does not match a path without it).
PatchReceive(id, body) ==
    /\ preq.pc = "idle"
    /\ preq' =
         IF body.title # undefined /\ (~IsString(body.title) \/ trim(body.title) = <<>>)
         THEN [IdlePatch EXCEPT !.pc = "done", !.id = id, !.body = body,
                 !.res = [status |-> 400, error |-> "title must be a non-empty string"]]
         ELSE IF body.title # undefined /\ Len(body.title) > TitleMax
         THEN [IdlePatch EXCEPT !.pc = "done", !.id = id, !.body = body,
                 !.res = [status |-> 400, error |-> "title must be at most 200 characters"]]
         ELSE IF body.description # undefined /\ ~IsString(body.description)
         THEN [IdlePatch EXCEPT !.pc = "done", !.id = id, !.body = body,
                 !.res = [status |-> 400, error |-> "description must be a string"]]
         ELSE IF DOMAIN PatchData(body) = {}
         THEN [IdlePatch EXCEPT !.pc = "find", !.id = id, !.body = body]
         ELSE [IdlePatch EXCEPT !.pc = "update", !.id = id, !.body = body, !.data = PatchData(body)]
    /\ UNCHANGED <<openai, creq, tickets, treq, form, sreq, lreq, greq>>

\* Whether the table has a row with this id.
HasTicket(id) == \E i \in 1..Len(tickets) : tickets[i].id = id

\* The row with this id.
TicketById(id) == tickets[CHOOSE i \in 1..Len(tickets) : tickets[i].id = id]

\* A row with the fields of data replaced.
Updated(row, data) ==
    [f \in DOMAIN row |-> IF f \in DOMAIN data THEN data[f] ELSE row[f]]

\* prisma.ticket.update settles without a storage failure: the row is
\* updated and returned, or there is none (P2025) and the answer is 404.
DbUpdateOk ==
    /\ preq.pc = "update"
    /\ IF HasTicket(preq.id)
       THEN /\ tickets' = [i \in 1..Len(tickets) |->
                             IF tickets[i].id = preq.id
                             THEN Updated(tickets[i], preq.data) ELSE tickets[i]]
            /\ preq' = [preq EXCEPT !.pc = "done",
                          !.res = [status |-> 200,
                                   ticket |-> Updated(TicketById(preq.id), preq.data)]]
       ELSE /\ tickets' = tickets
            /\ preq' = [preq EXCEPT !.pc = "done",
                          !.res = [status |-> 404, error |-> "Ticket not found"]]
    /\ UNCHANGED <<openai, creq, treq, form, sreq, lreq, greq>>

\* prisma.ticket.update rejects with another error: the catch block answers
\* 500.
DbUpdateFail ==
    /\ preq.pc = "update"
    /\ preq' = [preq EXCEPT !.pc = "done",
                  !.res = [status |-> 500, error |-> "Failed to update ticket"]]
    /\ UNCHANGED <<openai, creq, tickets, treq, form, sreq, lreq, greq>>

\* prisma.ticket.findUnique of the empty update resolves: the row is
\* returned as it is, or there is none and the answer is 404.
PatchFindOk ==
    /\ preq.pc = "find"
    /\ preq' = [preq EXCEPT !.pc = "done",
                  !.res = IF HasTicket(preq.id)
                          THEN [status |-> 200, ticket |-> TicketById(preq.id)]
                          ELSE [status |-> 404, error |-> "Ticket not found"]]
    /\ UNCHANGED <<openai, creq, tickets, treq, form, sreq, lreq, greq>>

\* prisma.ticket.findUnique of the empty update rejects.  The await is not
\* inside a try block, so the promise of the async handler rejects.  What
\* follows is up to the version of express the build resolves: express 4
\* ignores the promise and the request gets no response; express 5 hands the
\* error to its default error handler, which answers 500.
PatchFindFail ==
    /\ preq.pc = "find"
    /\ \/ preq' = [preq EXCEPT !.pc = "escaped"]
       \/ preq' = [preq EXCEPT !.pc = "done",
                     !.res = [status |-> 500, error |-> "Internal Server Error"]]
    /\ UNCHANGED <<openai, creq, tickets, treq, form, sreq, lreq, greq>>

\* The response has been sent; nothing of the request is kept.
PatchRespond ==
    /\ preq.pc = "done"
    /\ preq' = IdlePatch
    /\ UNCHANGED <<openai, creq, tickets, treq, form, sreq, lreq, greq>>

\* ------------------------------------------------ GET /api/tickets/stats/
\* The five queries the handler starts together (Promise.all); each is
\* answered by the database on its own, at its own moment.
StatsQueries == {"total", "open", "byPriority", "byCategory", "dateRange"}

\* The stats request being handled:
\*   pc       idle (no request), await (suspended in Promise.all), done
\*   got      the queries that have resolved
\*   results  what each resolved query returned
\*   res      the response
IdleStats == [pc |-> "idle", got |-> {}, results |-> NoFields, res |-> NoResponse]

\* The handler up to the await: the five queries are started.
StatsReceive ==
    /\ sreq.pc = "idle"
    /\ sreq' = [IdleStats EXCEPT !.pc = "await"]
    /\ UNCHANGED <<openai, creq, tickets, treq, form, preq, lreq, greq>>

\* The rows of the table.
Rows == {tickets[i] : i \in 1..Len(tickets)}

\* The row positions whose column col holds value v.
RowsWith(col, v) == {i \in 1..Len(tickets) : tickets[i][col] = v}

\* groupBy({ by: [col], _count: { col: true } }): one count per value that
\* occurs in the column.
GroupBy(col) ==
    [v \in {row[col] : row \in Rows} |-> Cardinality(RowsWith(col, v))]

\* aggregate({ _min: { created_at }, _max: { created_at } }); 0 stands for
\* the null of an empty table.
DateRange ==
    IF tickets = <<>> THEN [min |-> 0, max |-> 0]
    ELSE [min |-> CHOOSE t \in {r.created_at : r \in Rows} :
                    \A r \in Rows : t <= r.created_at,
          max |-> CHOOSE t \in {r.created_at : r \in Rows} :
                    \A r \in Rows : t >= r.created_at]

\* What query q returns when the database answers it now.
QueryResult(q) ==
    IF q = "total" THEN Len(tickets)
    ELSE IF q = "open" THEN Cardinality(RowsWith("status", open))
    ELSE IF q = "byPriority" THEN GroupBy("priority")
    ELSE IF q = "byCategory" THEN GroupBy("category")
    ELSE DateRange

\* One of the five queries resolves.
StatsQuery(q) ==
    /\ sreq.pc = "await"
    /\ q \notin sreq.got
    /\ sreq' = [sreq EXCEPT !.got = @ \cup {q},
                            !.results = @ @@ [k \in {q} |-> QueryResult(q)]]
    /\ UNCHANGED <<openai, creq, tickets, treq, form, preq, lreq, greq>>

\* One of the queries rejects: Promise.all rejects and the catch block
\* answers 500.
StatsQueryFail ==
    /\ sreq.pc = "await"
    /\ sreq.got # StatsQueries
    /\ sreq' = [sreq EXCEPT !.pc = "done",
                  !.res = [status |-> 500, error |-> "Failed to compute stats"]]
    /\ UNCHANGED <<openai, creq, tickets, treq, form, preq, lreq, greq>>

\* Math.round((total / days) * 10) / 10 with days = max(1, max - min), in
\* tenths; timestamps are in days.
AvgPerDay(total, range) ==
    IF range.min # 0 /\ range.max # 0 /\ total > 0
    THEN LET days == IF range.max - range.min > 1 THEN range.max - range.min ELSE 1
         IN  (20 * total + days) \div (2 * days)
    ELSE 0

\* A breakdown: a zero for every member, overwritten by the rows of groupBy.
Breakdown(members, rows) ==
    [m \in members |-> IF m \in DOMAIN rows THEN rows[m] ELSE 0]

\* All five queries have resolved: the handler resumes and answers.
StatsBuild ==
    /\ sreq.pc = "await"
    /\ sreq.got = StatsQueries
    /\ sreq' = [sreq EXCEPT !.pc = "done",
                  !.res = [status |-> 200,
                           total_tickets |-> sreq.results["total"],
                           open_tickets |-> sreq.results["open"],
                           avg_tickets_per_day |->
                               AvgPerDay(sreq.results["total"], sreq.results["dateRange"]),
                           priority_breakdown |->
                               Breakdown(PRIORITIES, sreq.results["byPriority"]),
                           category_breakdown |->
                               Breakdown(CATEGORIES, sreq.results["byCategory"])]]
    /\ UNCHANGED <<openai, creq, tickets, treq, form, preq, lreq, greq>>

\* The response has been sent; nothing of the request is kept.
StatsRespond ==
    /\ sreq.pc = "done"
    /\ sreq' = IdleStats
    /\ UNCHANGED <<openai, creq, tickets, treq, form, preq, lreq, greq>>

\* ------------------------------------------------------ GET /api/tickets/
\* The list request being handled:
\*   pc     idle (no request), await (suspended in findMany), done
\*   where  the filter handed to findMany
\*   res    the response
IdleList == [pc |-> "idle", where |-> NoFields, res |-> NoResponse]

\* The where object built from the query string.
ListWhere(query) ==
    Field("category", parseOptionalEnum(query.category, CATEGORIES))
    @@ Field("priority", parseOptionalEnum(query.priority, PRIORITIES))
    @@ Field("status", parseOptionalEnum(query.status, STATUSES))
    @@ Field("search",
             IF IsString(query.search) /\ trim(query.search) # <<>>
             THEN trim(query.search) ELSE undefined)

\* The handler up to the await of findMany.
ListReceive(query) ==
    /\ lreq.pc = "idle"
    /\ lreq' = [IdleList EXCEPT !.pc = "await", !.where = ListWhere(query)]
    /\ UNCHANGED <<openai, creq, tickets, treq, form, preq, sreq, greq>>

\* { contains: sub, mode: "insensitive" }
Contains(s, sub) ==
    \E i \in 1..(Len(s) + 1) :
        /\ i + Len(sub) - 1 <= Len(s)
        /\ toLowerCase(SubSeq(s, i, i + Len(sub) - 1)) = toLowerCase(sub)

\* Whether a row passes the filter.
Matches(row, where) ==
    /\ \A col \in DOMAIN where \ {"search"} : row[col] = where[col]
    /\ "search" \in DOMAIN where =>
          Contains(row.title, where.search) \/ Contains(row.description, where.search)

\* The results findMany may return: the rows that pass the filter, newest
\* first (rows of the same created_at in any order).
FindMany(where) ==
    LET hits == {i \in 1..Len(tickets) : Matches(tickets[i], where)}
    IN  { [k \in 1..Cardinality(hits) |-> tickets[f[k]]] :
            f \in { g \in [1..Cardinality(hits) -> hits] :
                      /\ \A a, b \in 1..Cardinality(hits) : a # b => g[a] # g[b]
                      /\ \A a, b \in 1..Cardinality(hits) :
                            a < b => tickets[g[a]].created_at >= tickets[g[b]].created_at } }

\* findMany resolves.
ListFindOk ==
    /\ lreq.pc = "await"
    /\ \E found \in FindMany(lreq.where) :
          lreq' = [lreq EXCEPT !.pc = "done", !.res = [status |-> 200, tickets |-> found]]
    /\ UNCHANGED <<openai, creq, tickets, treq, form, preq, sreq, greq>>

\* findMany rejects: the catch block answers 500.
ListFindFail ==
    /\ lreq.pc = "await"
    /\ lreq' = [lreq EXCEPT !.pc = "done",
                  !.res = [status |-> 500, error |-> "Failed to list tickets"]]
    /\ UNCHANGED <<openai, creq, tickets, treq, form, preq, sreq, greq>>

\* The response has been sent; nothing of the request is kept.
ListRespond ==
    /\ lreq.pc = "done"
    /\ lreq' = IdleList
    /\ UNCHANGED <<openai, creq, tickets, treq, form, preq, sreq, greq>>

\* --------------------------------------------------- GET /api/tickets/:id
\* The get-by-id request being handled: pc idle, await (suspended in
\* findUnique), done; the :id of the URL; the response.
IdleGet == [pc |-> "idle", id |-> 0, res |-> NoResponse]

\* The handler up to the await of findUnique.
GetReceive(id) ==
    /\ greq.pc = "idle"
    /\ greq' = [IdleGet EXCEPT !.pc = "await", !.id = id]
    /\ UNCHANGED <<openai, creq, tickets, treq, form, preq, sreq, lreq>>

\* findUnique resolves: the row is returned, or there is none and the answer
\* is 404.
GetFindOk ==
    /\ greq.pc = "await"
    /\ greq' = [greq EXCEPT !.pc = "done",
                  !.res = IF HasTicket(greq.id)
                          THEN [status |-> 200, ticket |-> TicketById(greq.id)]
                          ELSE [status |-> 404, error |-> "Ticket not found"]]
    /\ UNCHANGED <<openai, creq, tickets, treq, form, preq, sreq, lreq>>

\* findUnique rejects: the catch block answers 500.
GetFindFail ==
    /\ greq.pc = "await"
    /\ greq' = [greq EXCEPT !.pc = "done",
                  !.res = [status |-> 500, error |-> "Failed to get ticket"]]
    /\ UNCHANGED <<openai, creq, tickets, treq, form, preq, sreq, lreq>>

\* The response has been sent; nothing of the request is kept.
GetRespond ==
    /\ greq.pc = "done"
    /\ greq' = IdleGet
    /\ UNCHANGED <<openai, creq, tickets, treq, form, preq, sreq, lreq>>

\* ------------------------------------------------ the new-ticket form
\* The state of Home that the form reads and writes:
\*   title, description, category, priority   the controlled inputs
\*   classifyLoading, submitLoading, submitError
\*   classifyTimeout   the description the pending debounce timer will
\*                     classify (undefined: no timer pending)
\*   classifyAbort     whether classifyAbortRef holds a controller
\*   refreshing        whether handleSubmit is suspended in the await of
\*                     fetchTickets and fetchStats
InitialForm ==
    [title |-> <<>>, description |-> <<>>, category |-> general, priority |-> medium,
     classifyLoading |-> FALSE, submitLoading |-> FALSE, submitError |-> "null",
     classifyTimeout |-> undefined, classifyAbort |-> FALSE, refreshing |-> FALSE]

\* Mutant: the effect returns no cleanup; only a non-blank description clears
\* the timer before it starts the next.
DescriptionEffectNoCleanup(f, d) ==
    IF trim(d) = <<>>
    THEN [f EXCEPT !.description = d]
    ELSE [f EXCEPT !.description = d, !.classifyTimeout = trim(d)]

\* The effect on [description], run when the description has become d: the
\* cleanup of the previous run (registered only when the previous description
\* was not blank) clears the timer and aborts the controller, which no fetch
\* listens to; then a non-blank d starts the timer of 500 ms.
DescriptionEffect(f, d) ==
    LET cleaned == IF trim(f.description) # <<>>
                   THEN [f EXCEPT !.classifyTimeout = undefined]
                   ELSE f
    IN  IF trim(d) = <<>>
        THEN [cleaned EXCEPT !.description = d]
        ELSE [cleaned EXCEPT !.description = d, !.classifyTimeout = trim(d)]

\* onChange of the title input (maxLength 200).
SetTitle(t) ==
    /\ t # form.title
    /\ Len(t) <= TitleMax
    /\ form' = [form EXCEPT !.title = t]
    /\ UNCHANGED <<openai, creq, tickets, treq, others>>

\* onChange of the description textarea.
SetDescription(d) ==
    /\ d # form.description
    /\ form' = DescriptionEffect(form, d)
    /\ UNCHANGED <<openai, creq, tickets, treq, others>>

\* The debounce timer fires: the controller of the previous request is
\* aborted (no fetch was given its signal, so nothing is cancelled), the
\* classify request is sent and reaches the endpoint as request r.
ClassifyTimeout(r) ==
    /\ form.classifyTimeout # undefined
    /\ \A q \in ReqIds : creq[q].pc = "idle" => r <= q
    /\ ClassifyReceive(r, form.classifyTimeout)
    /\ form' = [form EXCEPT !.classifyTimeout = undefined, !.classifyAbort = TRUE,
                            !.classifyLoading = TRUE]
    /\ UNCHANGED <<tickets, treq, others>>

\* The response of request r arrives: then (on 200), catch, finally.
ClassifyThen(r) ==
    /\ ClassifyRespond(r)
    /\ form' = IF creq[r].res.status = 200
               THEN [form EXCEPT !.category = creq[r].res.suggested_category,
                                 !.priority = creq[r].res.suggested_priority,
                                 !.classifyLoading = FALSE, !.classifyAbort = FALSE]
               ELSE [form EXCEPT !.classifyLoading = FALSE, !.classifyAbort = FALSE]
    /\ UNCHANGED <<tickets, treq, others>>

\* The create request the form would send.
SubmitBody(f) ==
    [title |-> trim(f.title), description |-> trim(f.description),
     category |-> f.category, priority |-> f.priority]

\* Mutant: the submit button is also disabled while a classify request is
\* pending.
HandleSubmitWaitsForClassify ==
    /\ ~form.submitLoading
    /\ ~form.classifyLoading
    /\ form.title # <<>>
    /\ form.description # <<>>
    /\ IF trim(form.title) = <<>> \/ trim(form.description) = <<>>
       THEN /\ form' = [form EXCEPT !.submitError = "null"]
            /\ UNCHANGED <<openai, creq, tickets, treq, others>>
       ELSE IF Len(trim(form.title)) > TitleMax
       THEN /\ form' = [form EXCEPT !.submitError = "Title must be at most 200 characters"]
            /\ UNCHANGED <<openai, creq, tickets, treq, others>>
       ELSE /\ form' = [form EXCEPT !.submitError = "null", !.submitLoading = TRUE]
            /\ CreateReceive(SubmitBody(form))

\* The form is submitted (the button is disabled while submitLoading; the
\* browser refuses to submit while a required input is empty): handleSubmit
\* up to the await of createTicket, whose request reaches the endpoint.
HandleSubmit ==
    /\ ~form.submitLoading
    /\ form.title # <<>>
    /\ form.description # <<>>
    /\ IF trim(form.title) = <<>> \/ trim(form.description) = <<>>
       THEN /\ form' = [form EXCEPT !.submitError = "null"]
            /\ UNCHANGED <<openai, creq, tickets, treq, others>>
       ELSE IF Len(trim(form.title)) > TitleMax
       THEN /\ form' = [form EXCEPT !.submitError = "Title must be at most 200 characters"]
            /\ UNCHANGED <<openai, creq, tickets, treq, others>>
       ELSE /\ form' = [form EXCEPT !.submitError = "null", !.submitLoading = TRUE]
            /\ CreateReceive(SubmitBody(form))

\* The response of createTicket arrives.  On 201 the form is cleared (which
\* runs the description effect) and the list and stats are fetched; otherwise
\* the error is shown and the finally block re-enables the button.
SubmitThen ==
    /\ treq.pc = "done"
    /\ form.submitLoading
    /\ ~form.refreshing
    /\ treq' = IdleCreate
    /\ form' = IF treq.res.status = 201
               THEN [DescriptionEffect(form, <<>>) EXCEPT
                        !.title = <<>>, !.category = general, !.priority = medium,
                        !.refreshing = TRUE]
               ELSE [form EXCEPT !.submitError = treq.res.error, !.submitLoading = FALSE]
    /\ UNCHANGED <<openai, creq, tickets, others>>

\* fetchTickets and fetchStats have settled: the finally block.
SubmitSettled ==
    /\ form.refreshing
    /\ form' = [form EXCEPT !.refreshing = FALSE, !.submitLoading = FALSE]
    /\ UNCHANGED <<openai, creq, tickets, treq, others>>

\* ------------------------------------------------------------- the inputs
\* Sequences over S of length at most n.
SeqsUpTo(S, n) == UNION {[1..k -> S] : k \in 0..n}

RECURSIVE Join(_, _)
Join(ws, sep) ==
    IF ws = <<>> THEN <<>>
    ELSE IF Len(ws) = 1 THEN ws[1]
    ELSE ws[1] \o sep \o Join(Tail(ws), sep)

\* Words of the descriptions drawn: keywords of each list, in several letter
\* cases, keywords inside longer words, and a word of no list.
DescWords ==
    { <<"b","i","l","l">>,
      <<"b","i","l","l","s">>,
      <<"L","o","g","i","n">>,
      <<"c","r","a","s","h">>,
      <<"c","r","a","s","h","e","s">>,
      <<"u","r","g","e","n","t">>,
      <<"u","r","g","e","n","t","l","y">>,
      <<"A","S","A","P">>,
      <<"s","o","o","n">>,
      <<"m","i","n","o","r">>,
      <<"t","h","e">> }

\* What stands between two words: a non-word character (a boundary), or a
\* word character or nothing (the two words become one longer word).
DescSeps == { <<" ">>, <<",">>, <<"_">>, <<>> }

\* "The app crashes on login, please fix urgently"
ScenarioText ==
    <<"T","h","e"," ","a","p","p"," ","c","r","a","s","h","e","s"," ","o","n"," ",
      "l","o","g","i","n",","," ","p","l","e","a","s","e"," ","f","i","x"," ",
      "u","r","g","e","n","t","l","y">>

\* Bodies that are rejected: no description, one that is no string, an empty
\* one, only whitespace.
BlankDescriptions == { undefined, null, aNumber, <<>>, <<" ">>, <<" ", "\n">> }

Descriptions ==
    {Join(ws, sep) : ws \in SeqsUpTo(DescWords, MaxWords), sep \in DescSeps}
        \cup {ScenarioText} \cup BlankDescriptions

ReqWords ==
    { <<"b","i","l","l">>,
      <<"L","o","g","i","n">>,
      <<"c","r","a","s","h">>,
      <<"A","S","A","P">>,
      <<"m","i","n","o","r">> }

ReqDescriptions ==
    {Join(ws, <<" ">>) : ws \in SeqsUpTo(ReqWords, MaxReqWords)}
        \cup BlankDescriptions

\* Tokens of the replies drawn: members of both enums in several letter
\* cases and a word of neither.
LLMTokens ==
    { <<"b","i","l","l","i","n","g">>,
      <<"T","e","c","h","n","i","c","a","l">>,
      <<"h","i","g","h">>,
      <<"L","O","W">>,
      <<"u","r","g","e","n","t">> }

\* How a reply is laid out: single spaces and nothing around, or a line
\* break and a space between tokens and a space at both ends.
LLMLayouts ==
    { [sep |-> <<" ">>, pad |-> <<>>],
      [sep |-> <<"\n", " ">>, pad |-> <<" ">>] }

\* Message contents the completion may carry; undefined: no choice, no
\* message or no content.
LLMContents ==
    {l.pad \o Join(ts, l.sep) \o l.pad :
        ts \in SeqsUpTo(LLMTokens, MaxTokens), l \in LLMLayouts}
        \cup {undefined}

\* -------------------------------------------------------- specifications
\* The classify endpoint, one request at a time, with and without a client.
\* No request of the other endpoints is being handled.
OthersIdle ==
    /\ preq = IdlePatch
    /\ sreq = IdleStats
    /\ lreq = IdleList
    /\ greq = IdleGet

Init ==
    /\ openai \in BOOLEAN
    /\ creq = [r \in ReqIds |-> IdleRequest]
    /\ tickets = <<>>
    /\ treq = IdleCreate
    /\ form = InitialForm
    /\ OthersIdle

\* A step of the classify endpoint alone.
ApiOnly == UNCHANGED <<tickets, treq, form, others>>

Next ==
    \/ creq[1].pc = "idle" /\ ApiOnly /\ \E d \in ReqDescriptions : ClassifyReceive(1, d)
    \/ creq[1].llm = "pending" /\ ApiOnly /\ \E c \in LLMContents : LLMReturn(1, c)
    \/ LLMThrow(1) /\ ApiOnly
    \/ LLMHang(1) /\ ApiOnly
    \/ ClassifyRespond(1) /\ ApiOnly

Spec == Init /\ [][Next]_vars

\* A few descriptions and replies for the specifications with several
\* requests in flight.
FewDescriptions ==
    { <<>>,
      <<"b","i","l","l">>,
      <<"L","o","g","i","n"," ","A","S","A","P">> }

FewContents ==
    { <<"T","e","c","h","n","i","c","a","l"," ","h","i","g","h">>,
      <<"u","r","g","e","n","t">> }

\* The completion call of request r settles, or turns out never to settle.
LLMSettles(r) ==
    \/ ApiOnly /\ \E c \in FewContents : LLMReturn(r, c)
    \/ LLMThrow(r) /\ ApiOnly
    \/ LLMHang(r) /\ ApiOnly

\* The classify endpoint with several requests in flight.  No request is
\* starved by the others: the continuation of each handler runs once its
\* completion call has resolved or rejected; whether the call does either is
\* up to the remote service (LLMHang).
FairNext ==
    \E r \in ReqIds :
        \/ creq[r].pc = "idle" /\ ApiOnly /\ \E d \in FewDescriptions : ClassifyReceive(r, d)
        \/ creq[r].llm = "pending" /\ ApiOnly /\ \E c \in FewContents : LLMReturn(r, c)
        \/ LLMThrow(r) /\ ApiOnly
        \/ LLMHang(r) /\ ApiOnly
        \/ ClassifyRespond(r) /\ ApiOnly

FairSpec ==
    Init /\ [][FairNext]_vars /\ \A r \in ReqIds : WF_vars(LLMSettles(r))

\* The web form and the backend behind it: the user edits the title and the
\* description and submits; the debounce timer sends classify requests; the
\* completion calls and the storage answer.
FewTitles == { <<>>, <<" ">>, <<"T">> }

TypedDescriptions == { <<>>, <<"L","o","g","i","n"," ","A","S","A","P">> }

WebNext ==
    \/ \E t \in FewTitles : SetTitle(t)
    \/ \E d \in TypedDescriptions : SetDescription(d)
    \/ \E r \in ReqIds : r <= MaxInFlight /\ ClassifyTimeout(r)
    \/ \E r \in ReqIds :
          creq[r].llm = "pending" /\ ApiOnly /\ \E c \in FewContents : LLMReturn(r, c)
    \/ \E r \in ReqIds : LLMThrow(r) /\ ApiOnly
    \/ \E r \in ReqIds : LLMHang(r) /\ ApiOnly
    \/ \E r \in ReqIds : ClassifyThen(r)
    \/ HandleSubmit
    \/ Len(tickets) < MaxSubmitted /\ DbCreateOk
    \/ DbCreateFail
    \/ SubmitThen
    \/ SubmitSettled

WebSpec == Init /\ [][WebNext]_vars

\* The description textarea and the classify requests it sends, several in
\* flight at a time: the user types, the debounce timer fires, the responses
\* arrive in any order.
FormDescriptions ==
    { <<>>,
      <<" ">>,
      <<"b","i","l","l">>,
      <<"b","i","l","l"," ">>,
      <<"L","o","g","i","n"," ","A","S","A","P">> }

FormNext ==
    \/ \E d \in FormDescriptions : SetDescription(d)
    \/ \E r \in ReqIds : ClassifyTimeout(r)
    \/ \E r \in ReqIds :
          creq[r].llm = "pending" /\ ApiOnly /\ \E c \in FewContents : LLMReturn(r, c)
    \/ \E r \in ReqIds : LLMThrow(r) /\ ApiOnly
    \/ \E r \in ReqIds : LLMHang(r) /\ ApiOnly
    \/ \E r \in ReqIds : ClassifyThen(r)

FormSpec == Init /\ [][FormNext]_vars

\* The keyword fallback alone: no client is constructed (no API key).
FallbackInit ==
    /\ openai = FALSE
    /\ creq = [r \in ReqIds |-> IdleRequest]
    /\ tickets = <<>>
    /\ treq = IdleCreate
    /\ form = InitialForm
    /\ OthersIdle

\* A title of one character more than allowed.
LongTitle == [i \in 1..(TitleMax + 1) |-> "x"]

\* Bodies of create requests: accepted ones (padded title and description,
\* enum values in capitals, padded, unknown, not a string, absent) and one
\* for each rejection.
CreateBodies ==
    { [NoBody EXCEPT !.title = <<" ","T"," ">>, !.description = <<"d"," ">>,
                     !.category = <<"B","I","L","L","I","N","G">>],
      [NoBody EXCEPT !.title = <<"T">>, !.description = <<"d">>,
                     !.category = <<" ","b","i","l","l","i","n","g">>,
                     !.priority = <<"H","i","g","h">>],
      [NoBody EXCEPT !.title = <<"T">>, !.description = <<"d">>,
                     !.category = <<"b","o","g","u","s">>, !.priority = aNumber],
      [NoBody EXCEPT !.description = <<"d">>],
      [NoBody EXCEPT !.title = aNumber, !.description = <<"d">>],
      [NoBody EXCEPT !.title = <<" ">>, !.description = <<"d">>],
      [NoBody EXCEPT !.title = LongTitle, !.description = <<"d">>],
      [NoBody EXCEPT !.title = <<"T">>, !.description = <<" ">>],
      [NoBody EXCEPT !.title = <<"T">>, !.description = null] }

\* Bodies of update requests: single fields and several, enum values in
\* capitals, padded and unknown, a blank description, the empty body, and
\* one for each rejection (with a valid status beside the rejected field).
PatchBodies ==
    { NoBody,
      [NoBody EXCEPT !.status = <<"C","l","o","s","e","d">>, !.priority = <<"L","O","W">>],
      [NoBody EXCEPT !.status = <<" ","c","l","o","s","e","d">>],
      [NoBody EXCEPT !.title = <<" ","U"," ">>, !.category = <<"T","e","c","h","n","i","c","a","l">>,
                     !.priority = <<"b","o","g","u","s">>],
      [NoBody EXCEPT !.description = <<" ">>],
      [NoBody EXCEPT !.title = <<" ">>, !.status = closed],
      [NoBody EXCEPT !.title = LongTitle, !.status = closed],
      [NoBody EXCEPT !.description = aNumber, !.status = closed] }

\* The ids of update requests: those of the rows there can be and one more.
PatchIds == 1..(MaxTickets + 1)

\* No request of a ticket endpoint is being handled.
Quiet ==
    /\ treq.pc = "idle"
    /\ preq.pc \in {"idle", "escaped"}
    /\ sreq.pc = "idle"
    /\ lreq.pc = "idle"
    /\ greq.pc = "idle"

\* The create and update endpoints and the table behind them, the requests
\* arriving one after the other.
TicketNext ==
    \/ Quiet /\ UNCHANGED form /\ \E body \in CreateBodies : CreateReceive(body)
    \/ DbCreateOk
    \/ DbCreateFail
    \/ CreateRespond
    \/ Quiet /\ \E id \in PatchIds, body \in PatchBodies : PatchReceive(id, body)
    \/ DbUpdateOk
    \/ DbUpdateFail
    \/ PatchFindOk
    \/ PatchFindFail
    \/ PatchRespond

TicketSpec == FallbackInit /\ [][TicketNext]_vars

\* The stats endpoint while tickets are created and updated: a stats request
\* is handled concurrently with the create and update requests (which arrive
\* one after the other), and the database answers each query and each write
\* at its own moment.
StatsCreateBodies ==
    { [NoBody EXCEPT !.title = <<"T">>, !.description = <<"d">>, !.category = billing] }

StatsPatchBodies ==
    { [NoBody EXCEPT !.status = closed, !.priority = low] }

StatsNext ==
    \/ StatsReceive
    \/ \E q \in StatsQueries : StatsQuery(q)
    \/ StatsQueryFail
    \/ StatsBuild
    \/ StatsRespond
    \/ preq.pc = "idle" /\ UNCHANGED form
          /\ \E body \in StatsCreateBodies : CreateReceive(body)
    \/ DbCreateOk
    \/ DbCreateFail
    \/ CreateRespond
    \/ treq.pc = "idle" /\ \E body \in StatsPatchBodies : PatchReceive(1, body)
    \/ DbUpdateOk
    \/ DbUpdateFail
    \/ PatchRespond

StatsSpec == FallbackInit /\ [][StatsNext]_vars

\* The five ticket endpoints over a storage that may fail any operation, the
\* requests arriving one after the other.
StorageCreateBodies ==
    { [NoBody EXCEPT !.title = <<"T">>, !.description = <<"d">>],
      [NoBody EXCEPT !.description = <<"d">>] }

StoragePatchBodies ==
    { NoBody,
      [NoBody EXCEPT !.priority = <<"b","o","g","u","s">>],
      [NoBody EXCEPT !.status = closed] }

ListQueries ==
    { [category |-> undefined, priority |-> undefined, status |-> undefined,
       search |-> undefined],
      [category |-> undefined, priority |-> undefined, status |-> <<"O","P","E","N">>,
       search |-> <<" ","t"," ">>] }

StorageNext ==
    \/ Quiet /\ UNCHANGED form /\ \E body \in StorageCreateBodies : CreateReceive(body)
    \/ DbCreateOk
    \/ DbCreateFail
    \/ CreateRespond
    \/ Quiet /\ \E id \in PatchIds, body \in StoragePatchBodies : PatchReceive(id, body)
    \/ DbUpdateOk
    \/ DbUpdateFail
    \/ PatchFindOk
    \/ PatchFindFail
    \/ PatchRespond
    \/ Quiet /\ StatsReceive
    \/ \E q \in StatsQueries : StatsQuery(q)
    \/ StatsQueryFail
    \/ StatsBuild
    \/ StatsRespond
    \/ Quiet /\ \E query \in ListQueries : ListReceive(query)
    \/ ListFindOk
    \/ ListFindFail
    \/ ListRespond
    \/ Quiet /\ \E id \in PatchIds : GetReceive(id)
    \/ GetFindOk
    \/ GetFindFail
    \/ GetRespond

StorageSpec == FallbackInit /\ [][StorageNext]_vars

\* The keyword fallback alone.
FallbackNext ==
    \/ creq[1].pc = "idle" /\ ApiOnly /\ \E d \in Descriptions : ClassifyReceive(1, d)
    \/ ClassifyRespond(1) /\ ApiOnly

FallbackSpec == FallbackInit /\ [][FallbackNext]_vars

\* ------------------------------------------------------------ properties
\* A request that has been answered with a suggestion.
Answered(r) == creq[r].pc = "done" /\ creq[r].res.status = 200

\* The reply after trimming, lowercasing and splitting on whitespace.
ReplyTokens(content) ==
    IF content = undefined THEN <<>> ELSE split(toLowerCase(trim(content)))

\* The first token is a category and the second a priority.
ReplyIsPair(content) ==
    LET ts == ReplyTokens(content)
    IN  Len(ts) >= 2 /\ ts[1] \in CATEGORIES /\ ts[2] \in PRIORITIES

\* C1: every classify request with a description that is non-empty after
\* trim is answered, whatever the capability did (absent, valid pair,
\* garbage, thrown), with a category of the four and a priority of the four.
C1_RangeInvariant ==
    \A r \in ReqIds :
        (creq[r].pc = "done" /\ ~DescriptionRejected(creq[r].description)) =>
            /\ creq[r].res.status = 200
            /\ creq[r].res.suggested_category \in CATEGORIES
            /\ creq[r].res.suggested_priority \in PRIORITIES

\* A garbage reply (tokens present, not a pair) was answered all the same.
C1_Witness ==
    /\ openai
    /\ Answered(1)
    /\ creq[1].llm = "returned"
    /\ Len(ReplyTokens(creq[1].content)) >= 2
    /\ ~ReplyIsPair(creq[1].content)

\* C2: when the reply's first token is a category and its second a priority
\* (after trim, lowercase, whitespace split), exactly that pair is returned,
\* whatever the letter case was and whatever follows the two tokens.
C2_LLMPairReturned ==
    \A r \in ReqIds :
        (creq[r].pc = "done" /\ creq[r].llm = "returned"
            /\ ReplyIsPair(creq[r].content)) =>
            creq[r].res = Suggestion(ReplyTokens(creq[r].content)[1],
                                     ReplyTokens(creq[r].content)[2])

\* A reply in another letter case, padded, with a third token, whose pair
\* differs in both members from what the keywords would have given.
C2_Witness ==
    /\ Answered(1)
    /\ creq[1].llm = "returned"
    /\ ReplyIsPair(creq[1].content)
    /\ Len(ReplyTokens(creq[1].content)) > 2
    /\ toLowerCase(creq[1].content) # creq[1].content
    /\ trim(creq[1].content) # creq[1].content
    /\ creq[1].res.suggested_category # FallbackCategory(creq[1].description)
    /\ creq[1].res.suggested_priority # FallbackPriority(creq[1].description)

\* C3: when the reply is missing, empty, has fewer than two tokens, or its
\* first token is no category or its second no priority (the two valid words
\* swapped included), the answer is the keyword fallback's for the description.
C3_InvalidReplyFallsBack ==
    \A r \in ReqIds :
        (creq[r].pc = "done" /\ creq[r].llm = "returned"
            /\ ~ReplyIsPair(creq[r].content)) =>
            creq[r].res = Suggestion(FallbackCategory(creq[r].description),
                                     FallbackPriority(creq[r].description))

\* The two valid words in swapped order, on a description whose keywords give
\* neither default.
C3_Witness ==
    /\ Answered(1)
    /\ creq[1].llm = "returned"
    /\ Len(ReplyTokens(creq[1].content)) = 2
    /\ ReplyTokens(creq[1].content)[1] \in PRIORITIES
    /\ ReplyTokens(creq[1].content)[2] \in CATEGORIES
    /\ creq[1].res.suggested_category = account
    /\ creq[1].res.suggested_priority = critical

\* C4: when the completion call throws, the request is still answered with
\* status 200 and exactly the keyword fallback's result.
C4_ThrowAbsorbed ==
    \A r \in ReqIds :
        (creq[r].llm = "threw") =>
            /\ creq[r].pc = "done"
            /\ creq[r].res = Suggestion(FallbackCategory(creq[r].description),
                                        FallbackPriority(creq[r].description))

C4_Witness ==
    /\ creq[1].llm = "threw"
    /\ creq[1].res.status = 200
    /\ creq[1].res.suggested_category = billing
    /\ creq[1].res.suggested_priority = low

\* C5: with no client (no API key) the answer to every non-empty description
\* is the keyword fallback's.
C5_UnconfiguredIsFallback ==
    \A r \in ReqIds :
        (~openai /\ creq[r].pc = "done"
            /\ ~DescriptionRejected(creq[r].description)) =>
            creq[r].res = Suggestion(FallbackCategory(creq[r].description),
                                     FallbackPriority(creq[r].description))

C5_Witness ==
    /\ ~openai
    /\ Answered(1)
    /\ creq[1].llm = "none"
    /\ creq[1].res.suggested_category = technical
    /\ creq[1].res.suggested_priority = critical

\* The words of a text: its maximal runs of letters, digits and underscores.
RECURSIVE WordsFrom(_, _, _)
WordsFrom(s, cur, acc) ==
    IF s = <<>>
    THEN IF cur = <<>> THEN acc ELSE acc \cup {cur}
    ELSE IF IsWordChar(Head(s))
         THEN WordsFrom(Tail(s), Append(cur, Head(s)), acc)
         ELSE WordsFrom(Tail(s), <<>>, IF cur = <<>> THEN acc ELSE acc \cup {cur})

WordsOf(s) == WordsFrom(s, <<>>, {})

\* Word w is keyword k up to letter case.
SameWord(w, k) ==
    /\ Len(w) = Len(k)
    /\ \A i \in 1..Len(w) : ToLowerChar(w[i]) = ToLowerChar(k[i])

\* Some word of the text is a keyword of the list.
HasKeyword(s, keywords) ==
    \E w \in WordsOf(s) : \E k \in keywords : SameWord(w, k)

\* Keyword k occurs somewhere in the text, letter case aside.
Occurs(k, s) ==
    \E i \in 1..Len(s) :
        /\ i + Len(k) - 1 <= Len(s)
        /\ SameWord(SubSeq(s, i, i + Len(k) - 1), k)

\* C8: the fallback category is billing if some word of the text is a billing
\* keyword, else account if some word is an account keyword, else technical
\* if some word is a technical keyword, else general; letter case is ignored
\* and a keyword inside a longer word is no match.
C8_CategoryOrder ==
    \A r \in ReqIds :
        (~openai /\ Answered(r)) =>
            creq[r].res.suggested_category =
                IF HasKeyword(creq[r].description, BillingPattern) THEN billing
                ELSE IF HasKeyword(creq[r].description, AccountPattern) THEN account
                ELSE IF HasKeyword(creq[r].description, TechnicalPattern) THEN technical
                ELSE general

\* A billing keyword occurs only inside a longer word, an account keyword is
\* a word in capitals and a technical keyword is a word: account.
C8_Witness ==
    /\ ~openai
    /\ Answered(1)
    /\ Occurs(<<"b","i","l","l">>, creq[1].description)
    /\ ~HasKeyword(creq[1].description, BillingPattern)
    /\ <<"L","o","g","i","n">> \in WordsOf(creq[1].description)
    /\ <<"c","r","a","s","h">> \in WordsOf(creq[1].description)
    /\ creq[1].res.suggested_category = account

\* C9: the fallback priority is critical if some word of the text is a
\* critical keyword (whatever high or low keywords it also has, and so for
\* every text with the word asap), else high if some word is a high keyword,
\* else low if some word is a low keyword, else medium.
C9_PriorityOrder ==
    \A r \in ReqIds :
        (~openai /\ Answered(r)) =>
            /\ creq[r].res.suggested_priority =
                IF HasKeyword(creq[r].description, CriticalPattern) THEN critical
                ELSE IF HasKeyword(creq[r].description, HighPattern) THEN high
                ELSE IF HasKeyword(creq[r].description, LowPattern) THEN low
                ELSE medium
            /\ HasKeyword(creq[r].description, {<<"a","s","a","p">>}) =>
                creq[r].res.suggested_priority = critical

\* The word asap beside a high keyword and a low keyword: critical.
C9_Witness ==
    /\ ~openai
    /\ Answered(1)
    /\ HasKeyword(creq[1].description, {<<"a","s","a","p">>})
    /\ HasKeyword(creq[1].description, {<<"s","o","o","n">>})
    /\ HasKeyword(creq[1].description, LowPattern)
    /\ creq[1].res.suggested_priority = critical

\* C10 as stated: with no client, "The app crashes on login, please fix
\* urgently" is classified account and critical.
C10_ScenarioCritical ==
    \A r \in ReqIds :
        (~openai /\ creq[r].pc = "done" /\ creq[r].description = ScenarioText) =>
            creq[r].res = Suggestion(account, critical)

\* C10 amended: the text is classified account and medium: "urgently" is a
\* longer word than the keyword urgent and no other priority keyword is a
\* word of the text.
C10_ScenarioMedium ==
    \A r \in ReqIds :
        (~openai /\ creq[r].pc = "done" /\ creq[r].description = ScenarioText) =>
            creq[r].res = Suggestion(account, medium)

C10_Witness ==
    /\ ~openai
    /\ creq[1].pc = "done"
    /\ creq[1].description = ScenarioText
    /\ creq[1].res.status = 200

\* C11: a classify request makes at most one completion call: exactly one
\* when a client was constructed and the description is accepted, none when
\* there is no client or the description is rejected; a request whose call
\* threw or returned a reply that is no pair is answered by the fallback
\* after that single call.
C11_SingleCall ==
    \A r \in ReqIds :
        /\ creq[r].calls <= 1
        /\ (creq[r].pc # "idle" /\ openai /\ ~DescriptionRejected(creq[r].description))
              => creq[r].calls = 1
        /\ (~openai \/ DescriptionRejected(creq[r].description)) => creq[r].calls = 0
        /\ (creq[r].llm = "threw"
              \/ (creq[r].llm = "returned" /\ ~ReplyIsPair(creq[r].content))) =>
                /\ creq[r].calls = 1
                /\ creq[r].pc = "done"
                /\ creq[r].res = FallbackResponse(creq[r].description)

\* The call threw and the fallback answered after the one call.
C11_Witness ==
    /\ openai
    /\ creq[1].llm = "threw"
    /\ creq[1].pc = "done"
    /\ creq[1].calls = 1
    /\ creq[1].res.suggested_category = account

\* Every classify request has been answered and its response handled, and no
\* debounce timer is pending.
ClassifySettled ==
    /\ form.classifyTimeout = undefined
    /\ \A r \in ReqIds : creq[r].pc = "idle"

\* With no client, once everything has settled on a non-blank description the
\* fields hold the suggestion for that description, the one the most recently
\* dispatched request carried.
LatestResultHeld ==
    (~openai /\ ClassifySettled /\ trim(form.description) # <<>>) =>
        /\ form.category = FallbackCategory(trim(form.description))
        /\ form.priority = FallbackPriority(trim(form.description))

\* The response of request r is handled while a later request q, carrying the
\* current description (another one than r's), is still under way: the fields
\* stay as they are.
SupersededLeavesFields ==
    \A r, q \in ReqIds :
        ( /\ r # q
          /\ creq[r].pc = "done" /\ creq'[r].pc = "idle"
          /\ creq[q].pc # "idle"
          /\ form.classifyTimeout = undefined
          /\ creq[q].description = trim(form.description)
          /\ creq[r].description # creq[q].description ) =>
            (form'.category = form.category /\ form'.priority = form.priority)

\* C12 as stated: the result of a classify request that a newer request has
\* superseded is not applied to the category and priority fields, so once all
\* requests have settled the fields hold the result of the most recently
\* dispatched request, in whatever order the responses arrived.
C12_SupersededDiscarded ==
    /\ []LatestResultHeld
    /\ [][SupersededLeavesFields]_vars

\* The lowercased, trimmed form of an enum input; undefined for an absent or
\* empty one.
Normalized(value) ==
    IF value \in {undefined, null, <<>>} THEN undefined
    ELSE toLowerCase(trim(String(value)))

\* The enum of each enum field of a body.
EnumOf(field) ==
    IF field = "category" THEN CATEGORIES
    ELSE IF field = "priority" THEN PRIORITIES
    ELSE STATUSES

\* C13 as stated: enum validation accepts an input exactly when its
\* lowercased, trimmed form is a member of the enum, and yields that member;
\* every other input yields undefined.  Seen on an update request that passed
\* the checks of title and description: each enum field of the body is in
\* the data handed to the storage exactly when its normalized value is a
\* member, and then as that member.
C13_EnumLowercasedTrimmed ==
    (preq.pc \in {"find", "update"}) =>
        \A field \in {"category", "priority", "status"} :
            IF Normalized(preq.body[field]) \in EnumOf(field)
            THEN /\ field \in DOMAIN preq.data
                 /\ preq.data[field] = Normalized(preq.body[field])
            ELSE field \notin DOMAIN preq.data

\* A body the create endpoint is to accept: a title that is a string, not
\* blank and of at most 200 characters, and a description that is a string
\* and not blank.
ValidCreate(body) ==
    /\ IsString(body.title)
    /\ \E i \in 1..Len(body.title) : ~IsSpace(body.title[i])
    /\ Len(body.title) <= 200
    /\ IsString(body.description)
    /\ \E i \in 1..Len(body.description) : ~IsSpace(body.description[i])

\* The member of the enum that the value is, letter case aside; the default
\* when it is none.
MemberOr(value, enum, default) ==
    IF IsString(value) /\ \E m \in enum : SameWord(value, m)
    THEN CHOOSE m \in enum : SameWord(value, m)
    ELSE default

\* s without its leading and trailing whitespace: the part from its first to
\* its last non-space character.
Stripped(s) ==
    LET solid == {i \in 1..Len(s) : ~IsSpace(s[i])}
    IN  IF solid = {} THEN <<>>
        ELSE SubSeq(s, CHOOSE i \in solid : \A j \in solid : i <= j,
                       CHOOSE i \in solid : \A j \in solid : i >= j)

\* A valid create request is never rejected, an invalid one never accepted,
\* and the ticket returned with 201 is the last row of the table and is what
\* was asked for.
CreatedAsRequested ==
    /\ (treq.pc = "await") => ValidCreate(treq.body)
    /\ (treq.pc = "done") =>
          IF ValidCreate(treq.body)
          THEN treq.res.status \in {201, 500}
          ELSE treq.res.status = 400
    /\ (treq.pc = "done" /\ treq.res.status = 201) =>
          /\ tickets # <<>>
          /\ tickets[Len(tickets)] = treq.res.ticket
          /\ treq.res.ticket.title = Stripped(treq.body.title)
          /\ treq.res.ticket.description = Stripped(treq.body.description)
          /\ treq.res.ticket.status = open
          /\ treq.res.ticket.category = MemberOr(treq.body.category, CATEGORIES, general)
          /\ treq.res.ticket.priority = MemberOr(treq.body.priority, PRIORITIES, medium)

\* The step that answers 201 appends one row and leaves the rows there were
\* as they were; no other step of the create handler touches the table.
CreateAddsOneRow ==
    (treq' # treq) =>
        IF treq'.pc = "done" /\ treq'.res.status = 201
        THEN /\ treq.pc = "await"
             /\ Len(tickets') = Len(tickets) + 1
             /\ \A i \in 1..Len(tickets) : tickets'[i] = tickets[i]
             /\ \A i \in 1..Len(tickets) : tickets[i].id # tickets'[Len(tickets')].id
        ELSE tickets' = tickets

\* C14: a create request with a non-blank title of at most 200 characters
\* and a non-blank description, once the storage has carried it out, has added
\* exactly one ticket and is answered 201 with it: title and description
\* trimmed, status open, category the supplied one if it is a member (letter
\* case aside) and general otherwise, priority likewise with medium; the
\* tickets stored before are unchanged.
C14_CreateAddsOne ==
    /\ []CreatedAsRequested
    /\ [][CreateAddsOneRow]_vars

\* A second ticket was created from a padded title and description and a
\* category in capitals.
C14_Witness ==
    /\ treq.pc = "done"
    /\ treq.res.status = 201
    /\ Len(tickets) = 2
    /\ treq.body.title # treq.res.ticket.title
    /\ treq.body.description # treq.res.ticket.description
    /\ treq.body.category # treq.res.ticket.category
    /\ treq.res.ticket.category = billing

\* The description is missing, is no string, or has no character other than
\* whitespace.
NoText(description) ==
    \/ description \in {undefined, null, aNumber}
    \/ \A i \in 1..Len(description) : IsSpace(description[i])

\* C15: a classify request whose description is missing, not a string or
\* empty after trimming is answered 400 at once: no completion call is made,
\* and the response carries an error and no suggestion (the fallback has not
\* run).
C15_RejectedBeforeClassifying ==
    \A r \in ReqIds :
        (creq[r].pc # "idle" /\ NoText(creq[r].description)) =>
            /\ creq[r].pc = "done"
            /\ creq[r].res.status = 400
            /\ DOMAIN creq[r].res = {"status", "error"}
            /\ creq[r].calls = 0
            /\ creq[r].llm = "none"

\* With a client, a description of whitespace only was answered 400.
C15_Witness ==
    /\ openai
    /\ creq[1].pc = "done"
    /\ creq[1].description = <<" ", "\n">>
    /\ creq[1].res.status = 400

\* The fields an update can set.
PatchFields == {"title", "description", "category", "priority", "status"}

\* The body supplies the field with a valid value: a non-blank title of at
\* most 200 characters, a description that is a string, a member of the
\* field's enum (letter case aside).
SuppliedValid(body, field) ==
    /\ IsString(body[field])
    /\ IF field = "title"
       THEN Len(body.title) <= 200 /\ \E i \in 1..Len(body.title) : ~IsSpace(body.title[i])
       ELSE IF field = "description" THEN TRUE
       ELSE \E m \in EnumOf(field) : SameWord(body[field], m)

\* The value the field is set to.
SuppliedValue(body, field) ==
    IF field \in {"title", "description"} THEN Stripped(body[field])
    ELSE MemberOr(body[field], EnumOf(field), undefined)

\* The body is rejected: it has a title that is no valid title, or a
\* description that is no string.
PatchRejected(body) ==
    \/ body.title # undefined /\ ~SuppliedValid(body, "title")
    \/ body.description # undefined /\ ~SuppliedValid(body, "description")

\* The answer to an update request: 400 exactly for a rejected body and
\* then, unless the storage failed, 404 for an unknown id and otherwise 200
\* with the row as it now is, which has every validly supplied field at its
\* supplied value.
PatchAnswered ==
    (preq.pc = "done") =>
        IF PatchRejected(preq.body) THEN preq.res.status = 400
        ELSE /\ preq.res.status \in {200, 404, 500}
             /\ preq.res.status = 404 => ~HasTicket(preq.id)
             /\ preq.res.status = 200 =>
                   /\ HasTicket(preq.id)
                   /\ preq.res.ticket = TicketById(preq.id)
                   /\ \A f \in PatchFields :
                         SuppliedValid(preq.body, f) =>
                             preq.res.ticket[f] = SuppliedValue(preq.body, f)

\* A step of the update handler changes, in the row of its id, exactly the
\* validly supplied fields, and only when it answers 200; the id and the
\* creation time of that row, and every other row, stay as they are.
PatchFrame ==
    (preq' # preq) =>
        /\ Len(tickets') = Len(tickets)
        /\ \A i \in 1..Len(tickets) :
              IF tickets[i].id = preq.id /\ preq'.pc = "done" /\ preq'.res.status = 200
              THEN /\ tickets'[i].id = tickets[i].id
                   /\ tickets'[i].created_at = tickets[i].created_at
                   /\ \A f \in PatchFields :
                         tickets'[i][f] =
                             IF SuppliedValid(preq.body, f)
                             THEN SuppliedValue(preq.body, f)
                             ELSE tickets[i][f]
              ELSE tickets'[i] = tickets[i]

TimerIsLatest ==
    IF Stripped(form.description) = <<>>
    THEN form.classifyTimeout = undefined
    ELSE form.classifyTimeout \in {undefined, Stripped(form.description)}

\* A change of the description sends nothing: it cancels the pending timer
\* and, unless the new text is blank, starts one.  A classify request is sent
\* only by the timer, which is then spent: one request, carrying the trimmed
\* text of the description as it stands.
DebounceStep ==
    /\ (form'.description # form.description) =>
          /\ creq' = creq
          /\ form'.classifyTimeout =
                IF Stripped(form'.description) = <<>> THEN undefined
                ELSE Stripped(form'.description)
    /\ \A r \in ReqIds :
          (creq[r].pc = "idle" /\ creq'[r].pc # "idle") =>
              /\ form.classifyTimeout # undefined
              /\ form'.classifyTimeout = undefined
              /\ form'.description = form.description
              /\ creq'[r].description = Stripped(form.description)
              /\ creq'[r].description # <<>>
              /\ \A q \in ReqIds \ {r} : creq'[q] = creq[q]

\* C17: classification from the form is debounced: each change of the
\* description cancels the pending timer and, if the trimmed description is
\* not empty, starts a new one; so edits that follow one another before the
\* timer fires send at most one classify request, after the last of them and
\* with the latest trimmed description; an empty description sends none.
C17_Debounced ==
    /\ []TimerIsLatest
    /\ [][DebounceStep]_vars

\* After the description was changed to a padded text the timer has fired
\* and the one request under way carries the trimmed text.
C17_Witness ==
    /\ form.description = <<"b","i","l","l"," ">>
    /\ form.classifyTimeout = undefined
    /\ creq[1].pc # "idle"
    /\ creq[1].description = <<"b","i","l","l">>
    /\ creq[2].pc = "idle"

\* Every row has a trimmed, non-empty title of at most 200 characters and a
\* category, priority and status of the enums.
RowsWellFormedButDescription ==
    \A i \in 1..Len(tickets) :
        /\ tickets[i].title # <<>>
        /\ tickets[i].title = Stripped(tickets[i].title)
        /\ Len(tickets[i].title) <= 200
        /\ tickets[i].category \in {billing, technical, account, general}
        /\ tickets[i].priority \in {low, medium, high, critical}
        /\ tickets[i].status \in {open, in_progress, resolved, closed}

\* Every row has a non-empty description.
RowsHaveDescription ==
    \A i \in 1..Len(tickets) : tickets[i].description # <<>>

\* A step that answers a create or an update request with 400 or 404 leaves
\* the table as it was.
RejectedLeavesStore ==
    /\ (treq' # treq /\ treq'.pc = "done" /\ treq'.res.status = 400) => tickets' = tickets
    /\ (preq' # preq /\ preq'.pc = "done" /\ preq'.res.status \in {400, 404}) =>
          tickets' = tickets

\* C18 as stated: after any sequence of create and update requests every
\* ticket in the store has a non-empty trimmed title of at most 200
\* characters, a non-empty description and a category, priority and status of
\* their enums, and a rejected request leaves the store unchanged.
C18_StoreInvariant ==
    /\ [](RowsWellFormedButDescription /\ RowsHaveDescription)
    /\ [][RejectedLeavesStore]_vars

\* C19 as stated: every successful stats response is consistent, also when
\* creates and updates run while the stats request is handled: the counts of
\* priority_breakdown add up to total_tickets, so do those of
\* category_breakdown, every member of both enums is a key, and open_tickets
\* is at most total_tickets.
C19_StatsConsistent ==
    (sreq.pc = "done" /\ sreq.res.status = 200) =>
        LET res == sreq.res
        IN  /\ DOMAIN res.priority_breakdown = {low, medium, high, critical}
            /\ DOMAIN res.category_breakdown = {billing, technical, account, general}
            /\ res.priority_breakdown[low] + res.priority_breakdown[medium]
                  + res.priority_breakdown[high] + res.priority_breakdown[critical]
                  = res.total_tickets
            /\ res.category_breakdown[billing] + res.category_breakdown[technical]
                  + res.category_breakdown[account] + res.category_breakdown[general]
                  = res.total_tickets
            /\ res.open_tickets <= res.total_tickets

\* No handler has ended with its exception uncaught and its request
\* unanswered.
NoRequestAbandoned ==
    /\ treq.pc # "escaped"
    /\ preq.pc # "escaped"
    /\ sreq.pc # "escaped"
    /\ lreq.pc # "escaped"
    /\ greq.pc # "escaped"

\* Each step in which a storage operation fails ends with the 500 response
\* of its handler written.
StorageFailureAnswered ==
    /\ DbCreateFail => (treq'.pc = "done" /\ treq'.res.status = 500)
    /\ (DbUpdateFail \/ PatchFindFail) => (preq'.pc = "done" /\ preq'.res.status = 500)
    /\ StatsQueryFail => (sreq'.pc = "done" /\ sreq'.res.status = 500)
    /\ ListFindFail => (lreq'.pc = "done" /\ lreq'.res.status = 500)
    /\ GetFindFail => (greq'.pc = "done" /\ greq'.res.status = 500)

\* C20 as stated: every ticket endpoint (create, list, stats, update, get by
\* id) answers a storage failure with a 500 response; on no path does an
\* exception of the storage escape the handler and leave the request without
\* a response, the update whose body has no valid field included.
C20_StorageFailureIs500 ==
    /\ []NoRequestAbandoned
    /\ [][StorageFailureAnswered]_vars

\* C6 as stated: the completion call is bounded by a deadline, so a request
\* suspended in it is eventually answered even when the capability never
\* responds.
C6_HangingCallAnswered ==
    \A r \in ReqIds : (creq[r].pc = "await") ~> (creq[r].pc = "done")

\* The form holds a title and a description the create endpoint accepts.
FormComplete ==
    /\ trim(form.title) # <<>>
    /\ Len(trim(form.title)) <= TitleMax
    /\ trim(form.description) # <<>>

\* Whenever the form is complete and no submission is under way, submitting
\* sends the create request, whatever the classify requests are doing.
SubmitNeverBlocked ==
    (FormComplete /\ ~form.submitLoading) =>
        ENABLED (HandleSubmit /\ treq'.pc = "await")

\* A create request suspended in the storage call resumes as soon as the
\* storage answers, whatever the classify requests are doing.
CreateWaitsForStorageOnly ==
    (treq.pc = "await") => ENABLED DbCreateFail /\ (Len(tickets) < MaxTickets => ENABLED DbCreateOk)

\* No step of the create handler starts, resumes or ends a classify request
\* or a completion call.
CreateLeavesClassifyAlone ==
    (treq' # treq) => (creq' = creq /\ openai' = openai)

\* C7: ticket submission does not depend on classification: a create request
\* with a valid title and description is handled without a completion call
\* and without waiting for one, with no client, with a call in flight, failed
\* or hanging; and the form's submit is not disabled by a classify request.
C7_SubmissionIndependent ==
    /\ [](SubmitNeverBlocked /\ CreateWaitsForStorageOnly)
    /\ [][CreateLeavesClassifyAlone]_vars

\* A ticket was created and answered with 201 while a classify request sent
\* by the form hangs in its completion call and the form still shows it as
\* loading.
C7_Witness ==
    /\ treq.pc = "done"
    /\ treq.res.status = 201
    /\ form.classifyLoading
    /\ \E r \in ReqIds : creq[r].llm = "hung"

====
